---- MODULE Spec2Model ----
(***************************************************************************)
(* Model of package filesize (filesize.go): ParseSize, FormatSize and      *)
(* ValidateSize.                                                           *)
(*                                                                         *)
(* Strings are sequences of one-character strings.  The int64 and float64  *)
(* values of the Go code are wider than the integers of the model checker, *)
(* so a natural number is a little-endian sequence of limbs in base Base   *)
(* without leading zero limbs (<<>> is 0), an int64 is a sign and such a   *)
(* magnitude, and a float64 is  mant * 2^exp  with mant below 2^53,        *)
(* rounded to nearest, ties to even, as IEEE 754 binary64 rounds.          *)
(***************************************************************************)
EXTENDS Integers, Sequences, FiniteSets, TLC

VARIABLES op, sizeStr, bytes, ret, err, verr, out

vars == <<op, sizeStr, bytes, ret, err, verr, out>>

(***************************************************************************)
(* Natural numbers of any size.                                            *)
(***************************************************************************)
Base == 2^15

LimbBits == CHOOSE k \in 1..30 : 2^k = Base

Zero == <<>>

One == <<1>>

\* the least element of a non-empty set of integers
Min(S) == CHOOSE i \in S : \A j \in S : i <= j

\* the greatest element of a non-empty set of integers
Max(S) == CHOOSE i \in S : \A j \in S : j <= i

\* x without its leading zero limbs
Norm(x) == SubSeq(x, 1, Max({i \in DOMAIN x : x[i] # 0} \cup {0}))

Zeros(n) == [i \in 1..n |-> 0]

Limb(x, i) == IF i \in DOMAIN x THEN x[i] ELSE 0

\* whether adding x and y carries into limb i: the nearest limb below i
\* whose sum is not Base - 1 decides, and it carries when its sum reaches Base
Carry(x, y, i) ==
    LET d == CHOOSE d \in 1..i : d = i \/ Limb(x, i - d) + Limb(y, i - d) # Base - 1
    IN  d < i /\ Limb(x, i - d) + Limb(y, i - d) >= Base

Add(x, y) ==
    IF x = Zero THEN y
    ELSE IF y = Zero THEN x
    ELSE LET n == (IF Len(x) > Len(y) THEN Len(x) ELSE Len(y)) + 1
         IN  Norm([i \in 1..n |->
                     (Limb(x, i) + Limb(y, i) + IF Carry(x, y, i) THEN 1 ELSE 0) % Base])

\* x * c, for a limb-sized c: the low halves of the limb products plus
\* their high halves one limb up
MulSmall(x, c) ==
    IF x = Zero \/ c = 0 THEN Zero
    ELSE Add([i \in DOMAIN x |-> (x[i] * c) % Base],
             <<0>> \o [i \in DOMAIN x |-> (x[i] * c) \div Base])

\* the sum over i in lo..hi of x * y[i] * Base^(i-1)
RECURSIVE MulSum(_, _, _, _)
MulSum(x, y, lo, hi) ==
    IF lo > hi THEN <<>>
    ELSE IF lo = hi THEN Norm(Zeros(lo - 1) \o MulSmall(x, y[lo]))
    ELSE Add(MulSum(x, y, lo, (lo + hi) \div 2), MulSum(x, y, (lo + hi) \div 2 + 1, hi))

Mul(x, y) == IF x = Zero \/ y = Zero THEN Zero ELSE MulSum(x, y, 1, Len(y))

\* -1, 0, 1 as x is below, equal to or above y
Cmp(x, y) ==
    IF Len(x) < Len(y) THEN -1
    ELSE IF Len(x) > Len(y) THEN 1
    ELSE LET d == {i \in DOMAIN x : x[i] # y[i]}
         IN  IF d = {} THEN 0 ELSE IF x[Max(d)] < y[Max(d)] THEN -1 ELSE 1

Less(x, y) == Cmp(x, y) = -1

LessEq(x, y) == Cmp(x, y) # 1

\* <<quotient, remainder>> of x by a limb-sized d
RECURSIVE DivFrom(_, _, _, _)
DivFrom(x, d, i, rem) ==
    IF i = 0 THEN <<<<>>, rem>>
    ELSE LET t == rem * Base + x[i]
             r == DivFrom(x, d, i - 1, t % d)
         IN  <<r[1] \o <<t \div d>>, r[2]>>

DivSmall(x, d) ==
    LET r == DivFrom(x, d, Len(x), 0)
    IN  <<Norm(r[1]), r[2]>>

TopBits(v) == CHOOSE k \in 0..LimbBits : 2^k > v /\ (k = 0 \/ 2^(k - 1) <= v)

BitLen(x) == IF x = <<>> THEN 0 ELSE LimbBits * (Len(x) - 1) + TopBits(x[Len(x)])

Bit(x, i) ==
    IF i \div LimbBits + 1 > Len(x) THEN 0
    ELSE (x[i \div LimbBits + 1] \div 2^(i % LimbBits)) % 2

\* x * 2^n
Shl(x, n) ==
    IF x = <<>> THEN x
    ELSE Norm(Zeros(n \div LimbBits) \o MulSmall(x, 2^(n % LimbBits)))

\* x / 2^n rounded down
Shr(x, n) ==
    LET w == n \div LimbBits
        r == n % LimbBits
    IN  IF x = Zero THEN Zero
        ELSE
        Norm([i \in 1..(Len(x) - w) |->
                x[i + w] \div 2^r + (Limb(x, i + w + 1) % 2^r) * 2^(LimbBits - r)])

\* whether the n low bits of x are all zero
LowZero(x, n) == Shl(Shr(x, n), n) = x

IsOdd(x) == Bit(x, 0) = 1

\* x / 2^n rounded to the nearest integer, ties to even; sticky says that
\* x itself stands for a value slightly above x
RoundShr(x, n, sticky) ==
    IF n = 0 THEN x
    ELSE LET q    == Shr(x, n)
             half == Bit(x, n - 1) = 1
             rest == sticky \/ ~LowZero(x, n - 1)
         IN  IF half /\ (rest \/ IsOdd(q)) THEN Add(q, One) ELSE q

Pow2(n) == Shl(One, n)

RECURSIVE Pow10(_)
Pow10(n) ==
    IF n = 0 THEN One
    ELSE LET h == Pow10(n \div 2)
         IN  IF n % 2 = 0 THEN Mul(h, h) ELSE MulSmall(Mul(h, h), 10)


\* x - y, for x >= y
RECURSIVE SubB(_, _, _)
SubB(x, y, borrow) ==
    IF x = <<>> THEN <<>>
    ELSE LET b == IF y = <<>> THEN 0 ELSE y[1]
             t == x[1] - b - borrow
         IN  <<(t + Base) % Base>> \o SubB(Tail(x), IF y = <<>> THEN y ELSE Tail(y),
                                          IF t < 0 THEN 1 ELSE 0)

Sub(x, y) == Norm(SubB(x, y, 0))

(***************************************************************************)
(* Characters and strings.                                                 *)
(***************************************************************************)
Digits == <<"0", "1", "2", "3", "4", "5", "6", "7", "8", "9">>

Lower == <<"a", "b", "c", "d", "e", "f", "g", "h", "i", "j", "k", "l", "m",
           "n", "o", "p", "q", "r", "s", "t", "u", "v", "w", "x", "y", "z">>

Upper == <<"A", "B", "C", "D", "E", "F", "G", "H", "I", "J", "K", "L", "M",
           "N", "O", "P", "Q", "R", "S", "T", "U", "V", "W", "X", "Y", "Z">>

Range(f) == {f[i] : i \in DOMAIN f}

IndexOf(f, c) == CHOOSE i \in DOMAIN f : f[i] = c

DigitSet == Range(Digits)

UpperSet == Range(Upper)

LetterSet == Range(Lower) \cup Range(Upper)

\* \d of the regexp
IsDigit(c) == c \in DigitSet

\* [a-zA-Z] of the regexp
IsLetter(c) == c \in LetterSet

\* \s of the regexp: [\t\n\f\r ]
IsReSpace(c) == c \in {"\t", "\n", "\f", "\r", " "}

\* unicode.IsSpace, which strings.TrimSpace strips: the regexp's class and,
\* among others, the vertical tab and the no-break space (written VT, NBSP)
IsSpace(c) == c \in {"\t", "\n", "VT", "\f", "\r", " ", "NBSP"}

\* strings.TrimSpace: s from its first to its last character that is no space
TrimSpace(s) ==
    LET keep == {i \in DOMAIN s : ~IsSpace(s[i])}
    IN  IF keep = {} THEN <<>>
        ELSE SubSeq(s, CHOOSE i \in keep : \A j \in keep : i <= j,
                       CHOOSE i \in keep : \A j \in keep : j <= i)

ToLower(s) == [i \in DOMAIN s |-> IF s[i] \in UpperSet THEN Lower[IndexOf(Upper, s[i])] ELSE s[i]]

\* the Go string of a sequence of characters
RECURSIVE Str(_)
Str(s) ==
    IF s = <<>> THEN ""
    ELSE IF Len(s) = 1 THEN s[1]
    ELSE Str(SubSeq(s, 1, Len(s) \div 2)) \o Str(SubSeq(s, Len(s) \div 2 + 1, Len(s)))

\* the first index at or after i of s that holds no digit (Len(s) + 1 if none):
\* where a greedy \d* started at i ends
SkipDigits(s, i) == Min({j \in i..Len(s) : ~IsDigit(s[j])} \cup {Len(s) + 1})

\* the same for \s*
SkipReSpace(s, i) == Min({j \in i..Len(s) : ~IsReSpace(s[j])} \cup {Len(s) + 1})

\* the same for [a-zA-Z]*
SkipLetters(s, i) == Min({j \in i..Len(s) : ~IsLetter(s[j])} \cup {Len(s) + 1})

\* the value of a sequence of decimal digits
RECURSIVE FromDecimal(_)
FromDecimal(ds) ==
    IF ds = <<>> THEN Zero
    ELSE IF Len(ds) = 1 THEN Norm(<<IndexOf(Digits, ds[1]) - 1>>)
    ELSE LET h == Len(ds) \div 2
         IN  Norm(Add(Mul(FromDecimal(SubSeq(ds, 1, h)), Pow10(Len(ds) - h)),
                      FromDecimal(SubSeq(ds, h + 1, Len(ds)))))

\* the decimal digits of x, at least one
RECURSIVE ToDecimal(_)
ToDecimal(x) ==
    LET r == DivSmall(x, 10)
    IN  (IF r[1] = <<>> THEN <<>> ELSE ToDecimal(r[1])) \o <<Digits[r[2] + 1]>>

(***************************************************************************)
(* float64 and int64.                                                      *)
(***************************************************************************)
\* bits of a float64's significand
MantBits == 53

\* a float64 is below 2^MaxExp
MaxExp == 1024

\* bits of an int64's magnitude
Int64Bits == 63

Int64(neg, mag) == [neg |-> neg /\ mag # Zero, mag |-> mag]

MaxInt64 == Int64(FALSE, Sub(Pow2(Int64Bits), One))

MinInt64 == Int64(TRUE, Pow2(Int64Bits))

\* what a conversion of a float64 outside the int64 range can yield: Go leaves
\* it to the implementation; amd64 yields the smallest int64, arm64 the largest
OutOfRange == {MinInt64, MaxInt64}

\* IntLess comparing the magnitudes only, as an unsigned comparison would
IntLessUnsigned(a, b) == Less(a.mag, b.mag)

IntLess(a, b) ==
    IF a.neg /\ ~b.neg THEN TRUE
    ELSE IF ~a.neg /\ b.neg THEN FALSE
    ELSE IF a.neg THEN Less(b.mag, a.mag)
    ELSE Less(a.mag, b.mag)

\* MakeFloat with the 24-bit significand of a float32, as ParseFloat(s, 32)
\* would round
MakeFloat32(neg, q, sticky, e) ==
    LET s == IF BitLen(q) > 24 THEN BitLen(q) - 24 ELSE 0
        m == RoundShr(q, s, sticky)
    IN  [neg |-> neg, inf |-> FALSE, mant |-> m, exp |-> IF m = Zero THEN 0 ELSE e + s]

\* the float64 nearest to q * 2^e (or slightly above q * 2^e when sticky)
MakeFloat(neg, q, sticky, e) ==
    LET s == IF BitLen(q) > MantBits THEN BitLen(q) - MantBits ELSE 0
        m == RoundShr(q, s, sticky)
    IN  IF BitLen(m) + e + s > MaxExp
        THEN [neg |-> neg, inf |-> TRUE, mant |-> Zero, exp |-> 0]
        ELSE [neg |-> neg, inf |-> FALSE, mant |-> m, exp |-> IF m = Zero THEN 0 ELSE e + s]

\* float64(n) of an int64 n
Float64(n) == MakeFloat(n.neg, n.mag, FALSE, 0)

\* a * b of float64s
FMul(a, b) ==
    IF a.inf \/ b.inf
    THEN [neg |-> a.neg # b.neg, inf |-> TRUE, mant |-> Zero, exp |-> 0]
    ELSE MakeFloat(a.neg # b.neg, Mul(a.mant, b.mant), FALSE, a.exp + b.exp)

IsPow2(x) == x # Zero /\ x = Pow2(BitLen(x) - 1)

\* a / b of float64s, for b a power of two: the division is exact
FDivPow2(a, b) ==
    CASE ~a.inf /\ ~b.inf /\ IsPow2(b.mant) ->
        IF a.mant = Zero THEN a
        ELSE [a EXCEPT !.neg = a.neg # b.neg, !.exp = a.exp - (BitLen(b.mant) - 1 + b.exp)]

\* a < 0
FNegative(a) == a.neg /\ (a.inf \/ a.mant # Zero)

\* -1, 0, 1 as a is below, equal to or above b, for a, b >= 0
FCmp(a, b) ==
    CASE ~FNegative(a) /\ ~FNegative(b) ->
        IF a.inf /\ b.inf THEN 0
        ELSE IF a.inf THEN 1
        ELSE IF b.inf THEN -1
        ELSE LET e == IF a.exp < b.exp THEN a.exp ELSE b.exp
             IN  Cmp(Shl(a.mant, a.exp - e), Shl(b.mant, b.exp - e))

\* int64(f): the values the conversion can yield.  It truncates f toward
\* zero; for f outside the int64 range the result is the implementation's
ToInt64(f) ==
    IF f.inf THEN OutOfRange
    ELSE IF f.mant = Zero THEN {Int64(FALSE, Zero)}
    ELSE IF BitLen(f.mant) + f.exp > Int64Bits
    THEN IF f.neg /\ f.mant = Pow2(BitLen(f.mant) - 1) /\ BitLen(f.mant) + f.exp = Int64Bits + 1
         THEN {MinInt64}
         ELSE OutOfRange
    ELSE IF f.exp >= 0 THEN {Int64(f.neg, Shl(f.mant, f.exp))}
    ELSE {Int64(f.neg, Shr(f.mant, -f.exp))}

\* x / 10^k rounded down, and whether anything was dropped
RECURSIVE DivPow10(_, _, _)
DivPow10(x, k, sticky) ==
    IF k = 0 THEN <<x, sticky>>
    ELSE LET r == DivSmall(x, 10)
         IN  DivPow10(r[1], k - 1, sticky \/ r[2] # 0)

\* whether s is digits, optionally followed by a point and digits
IsNumeral(s) ==
    LET i == SkipDigits(s, 1)
    IN  /\ i > 1
        /\ \/ i = Len(s) + 1
           \/ /\ s[i] = "."
              /\ SkipDigits(s, i + 1) > i + 1
              /\ SkipDigits(s, i + 1) = Len(s) + 1

\* strconv.ParseFloat(s, 64) of an optionally signed decimal numeral without
\* exponent: the nearest float64, and "range" when that is infinite
ParseFloat(s) ==
    LET neg  == s # <<>> /\ Head(s) = "-"
        body == IF s # <<>> /\ Head(s) \in {"-", "+"} THEN Tail(s) ELSE s
    IN  IF ~IsNumeral(body) THEN [f |-> Float64(Int64(FALSE, Zero)), err |-> "syntax"]
        ELSE LET i    == SkipDigits(body, 1)
                 frac == SubSeq(body, i + 1, Len(body))
                 k    == Len(frac)
                 n    == FromDecimal(SubSeq(body, 1, i - 1) \o frac)
                 sh   == IF k = 0 THEN 0 ELSE MantBits + 11 + 4 * k
                 q    == DivPow10(Shl(n, sh), k, FALSE)
                 f    == MakeFloat(neg, q[1], q[2], -sh)
             IN  [f |-> f, err |-> IF f.inf THEN "range" ELSE "nil"]

\* fmt's %.Nf of a float64: the decimal nearest to f with prec digits after
\* the point, ties to even
FormatFloat(f, prec) ==
    LET scaled == Mul(f.mant, Pow10(prec))
        r      == IF f.exp >= 0 THEN Shl(scaled, f.exp) ELSE RoundShr(scaled, -f.exp, FALSE)
        ds     == ToDecimal(r)
        pad    == IF Len(ds) > prec THEN ds ELSE [i \in 1..(prec + 1 - Len(ds)) |-> "0"] \o ds
        sign   == IF f.neg THEN <<"-">> ELSE <<>>
    IN  IF prec = 0 THEN sign \o pad
        ELSE sign \o SubSeq(pad, 1, Len(pad) - prec) \o <<".">>
                  \o SubSeq(pad, Len(pad) - prec + 1, Len(pad))

(***************************************************************************)
(* filesize.go                                                             *)
(***************************************************************************)
IntMul(a, c) == Int64(a.neg, MulSmall(a.mag, c))

Byte == Int64(FALSE, One)

KiB == IntMul(Byte, 1024)

MiB == IntMul(KiB, 1024)

GiB == IntMul(MiB, 1024)

TiB == IntMul(GiB, 1024)

PiB == IntMul(TiB, 1024)

KB == IntMul(Byte, 1000)

MB == IntMul(KB, 1000)

GB == IntMul(MB, 1000)

TB == IntMul(GB, 1000)

PB == IntMul(TB, 1000)

unitMap ==
    [b |-> Byte, byte |-> Byte, bytes |-> Byte,
     kib |-> KiB, mib |-> MiB, gib |-> GiB, tib |-> TiB, pib |-> PiB,
     k |-> KiB, m |-> MiB, g |-> GiB, t |-> TiB, p |-> PiB,
     kb |-> KB, mb |-> MB, gb |-> GB, tb |-> TB, pb |-> PB]

\* an error is the message of its format string and the argument formatted
\* into it: its text is msg, ": " and arg.  A nil error:
nil == [msg |-> "<nil>", arg |-> ""]

\* fmt.Errorf(msg + ": %s", arg)
Errorf(msg, arg) == [msg |-> msg, arg |-> Str(arg)]

\* Lookup without the test for a missing key
LookupUnchecked(m, key) ==
    [value |-> IF key \in DOMAIN m THEN m[key] ELSE Int64(FALSE, Zero), ok |-> TRUE]

\* value, ok := m[key], with the zero value for a missing key
Lookup(m, key) ==
    IF key \in DOMAIN m THEN [value |-> m[key], ok |-> TRUE]
    ELSE [value |-> Int64(FALSE, Zero), ok |-> FALSE]

\* parseRegex without the $ that anchors it at the end of the string
parseRegexOpenEnd(s) ==
    LET i1   == SkipDigits(s, 1)
        frac == /\ i1 <= Len(s)
                /\ s[i1] = "."
                /\ SkipDigits(s, i1 + 1) > i1 + 1
        i2   == IF frac THEN SkipDigits(s, i1 + 1) ELSE i1
        i3   == SkipReSpace(s, i2)
        i4   == SkipLetters(s, i3)
    IN  IF i1 > 1
        THEN <<SubSeq(s, 1, i4 - 1), SubSeq(s, 1, i2 - 1), SubSeq(s, i3, i4 - 1)>>
        ELSE <<>>

\* parseRegex.FindStringSubmatch(s) for ^(\d+(?:\.\d+)?)\s*([a-zA-Z]*)$ :
\* <<s, number, unit>>, or <<>> when s does not match.  Every repetition is
\* greedy and no shorter repetition lets the rest match, so the match is
\* the one a single left-to-right scan finds.
parseRegex(s) ==
    LET i1   == SkipDigits(s, 1)
        frac == /\ i1 <= Len(s)
                /\ s[i1] = "."
                /\ SkipDigits(s, i1 + 1) > i1 + 1
        i2   == IF frac THEN SkipDigits(s, i1 + 1) ELSE i1
        i3   == SkipReSpace(s, i2)
        i4   == SkipLetters(s, i3)
    IN  IF i1 > 1 /\ i4 = Len(s) + 1
        THEN <<s, SubSeq(s, 1, i2 - 1), SubSeq(s, i3, Len(s))>>
        ELSE <<>>

\* return 0, fmt.Errorf(...)
Fail(msg, arg) == {[val |-> Int64(FALSE, Zero), err |-> Errorf(msg, arg)]}

\* return v, nil for the values v a conversion can yield
Return(vals) == {[val |-> v, err |-> nil] : v \in vals}

\* float64(int64(^uint64(0)>>1))
maxInt64 == Float64(MaxInt64)

\* ParseSize(sizeStr): the results [val, err] the call can return (more than
\* one only where an int64 conversion is out of range)
ParseSize(sizeStr0) ==
    LET s       == TrimSpace(sizeStr0)
        matches == parseRegex(s)
    IN  IF s = <<>> THEN Fail("empty size string", <<>>)
        ELSE IF matches = <<>> THEN Fail("invalid size format", s)
        ELSE
        LET numberStr == matches[2]
            unitStr   == ToLower(matches[3])
            parsed    == ParseFloat(numberStr)
            number    == parsed.f
        IN  IF parsed.err # "nil" THEN Fail("invalid number", numberStr)
            ELSE IF FNegative(number)
            THEN Fail("size cannot be negative", FormatFloat(number, 6))
            ELSE IF unitStr = <<>> THEN Return(ToInt64(number))
            ELSE
            LET found      == Lookup(unitMap, Str(unitStr))
                multiplier == found.value
                result     == FMul(number, Float64(multiplier))
            IN  IF ~found.ok THEN Fail("unknown unit", unitStr)
                ELSE IF FCmp(result, maxInt64) = 1 THEN Fail("size too large", s)
                ELSE Return(ToInt64(result))

\* units in ascending order
unitsAscending ==
    <<[name |-> <<"K", "i", "B">>, multiplier |-> KiB],
      [name |-> <<"M", "i", "B">>, multiplier |-> MiB],
      [name |-> <<"G", "i", "B">>, multiplier |-> GiB],
      [name |-> <<"T", "i", "B">>, multiplier |-> TiB],
      [name |-> <<"P", "i", "B">>, multiplier |-> PiB]>>

\* the units in descending order
units ==
    <<[name |-> <<"P", "i", "B">>, multiplier |-> PiB],
      [name |-> <<"T", "i", "B">>, multiplier |-> TiB],
      [name |-> <<"G", "i", "B">>, multiplier |-> GiB],
      [name |-> <<"M", "i", "B">>, multiplier |-> MiB],
      [name |-> <<"K", "i", "B">>, multiplier |-> KiB]>>

\* fmt's %d of a non-negative or negative int64
FormatInt(n) == (IF n.neg THEN <<"-">> ELSE <<>>) \o ToDecimal(n.mag)

FormatSize(n) ==
    IF IntLess(n, Int64(FALSE, Zero)) THEN <<"0", " ", "B">>
    ELSE IF IntLess(n, KiB) THEN FormatInt(n) \o <<" ", "B">>
    ELSE
    LET fits == {i \in DOMAIN units : ~IntLess(n, units[i].multiplier)}
    IN  IF fits = {} THEN FormatInt(n) \o <<" ", "B">>
        ELSE
        LET unit  == units[Min(fits)]
            value == FDivPow2(Float64(n), Float64(unit.multiplier))
        IN  IF FCmp(value, Float64(Int64(FALSE, <<100>>))) >= 0
            THEN FormatFloat(value, 0) \o <<" ">> \o unit.name
            ELSE IF FCmp(value, Float64(Int64(FALSE, <<10>>))) >= 0
            THEN FormatFloat(value, 1) \o <<" ">> \o unit.name
            ELSE FormatFloat(value, 2) \o <<" ">> \o unit.name

\* ValidateSize dropping the error
ValidateSizeNil(s) == {nil}

\* ValidateSize(sizeStr): the errors the call can return
ValidateSize(s) == {r.err : r \in ParseSize(s)}

(***************************************************************************)
(* The calls tried.                                                        *)
(***************************************************************************)
\* padding runs are at most this long
MaxPad == 1

\* the strings tried character by character are at most this long
MaxFree == 3

\* the longest numeral tried has this many digits
MaxDigits == 310

\* all sequences over S of length at most n
RECURSIVE SeqsUpTo(_, _)
SeqsUpTo(S, n) ==
    IF n = 0 THEN {<<>>}
    ELSE LET r == SeqsUpTo(S, n - 1)
         IN  r \cup {<<c>> \o t : c \in S, t \in {u \in r : Len(u) = n - 1}}

Pads == SeqsUpTo({" ", "VT"}, MaxPad)

\* t with the letters at the positions in S in upper case
Spell(t, S) == [i \in DOMAIN t |-> IF i \in S THEN Upper[IndexOf(Lower, t[i])] ELSE t[i]]

\* t in lower case, in upper case, as kB and Kb, and as KiB
Spellings(t) == {Spell(t, S) : S \in {{}, DOMAIN t, {1}, {Len(t)}, {1, Len(t)}}}

\* every spelling of t in upper and lower case letters
AllSpellings(t) == {Spell(t, S) : S \in SUBSET DOMAIN t}

UnitKeys ==
    {<<"b">>, <<"b", "y", "t", "e">>, <<"b", "y", "t", "e", "s">>,
     <<"k", "i", "b">>, <<"m", "i", "b">>, <<"g", "i", "b">>, <<"t", "i", "b">>,
     <<"p", "i", "b">>, <<"k">>, <<"m">>, <<"g">>, <<"t">>, <<"p">>,
     <<"k", "b">>, <<"m", "b">>, <<"g", "b">>, <<"t", "b">>, <<"p", "b">>}

OtherTokens ==
    {<<"z", "i", "b">>, <<"x", "b">>, <<"x", "y">>, <<"k", "i">>, <<"k", "b", "s">>, <<"e">>}

Tokens ==
    UNION {Spellings(t) : t \in UnitKeys \cup OtherTokens}
    \cup AllSpellings(<<"k", "i", "b">>)

Numeral(x) == ToDecimal(x)

\* 10^n written out
TenTo(n) == <<"1">> \o [i \in 1..n |-> "0"]

Numerals ==
    {Numeral(x) : x \in {Zero, One, <<4>>, <<1024>>, <<8191>>, <<8192>>, <<8193>>,
                         Sub(Pow2(MantBits), One), Add(Pow2(MantBits), One),
                         Sub(Pow2(Int64Bits), One), Pow2(Int64Bits),
                         Add(Pow2(Int64Bits), <<1025>>), Sub(Pow10(20), One)}}
    \cup {<<"0", "0", "7">>}

\* numerals about as large as a float64 gets
LongNumerals == {TenTo(MaxDigits - 2), TenTo(MaxDigits - 1)}

Fractions ==
    {<<".", "5">>, <<".", "0", "1">>, <<".", "2">>, <<".", "0">>, <<".">>,
     <<".", "2", ".", "3">>}

SizeStrings ==
    {n \o u : n \in Numerals, u \in Tokens \cup {<<>>}}
    \cup {n \o u : n \in LongNumerals, u \in {<<>>, <<"k">>, <<"x", "y">>}}
    \cup {n \o f \o u : n \in {<<"0">>, <<"1">>, <<"2">>, <<"8">>}, f \in Fractions,
                        u \in {<<>>, <<"b">>, <<"k">>, <<"k", "b">>, <<"M", "B">>,
                               <<"G", "i", "B">>, <<"x", "y">>}}
    \cup {a \o g \o <<"1">> \o b \o u \o c :
            a \in Pads, b \in Pads, c \in Pads, g \in {<<>>, <<"-">>, <<"+">>},
            u \in {<<>>, <<"k">>, <<"K", "i", "B">>, <<"x", "y">>}}
    \cup SeqsUpTo({"1", ".", "k", " ", "-"}, MaxFree)

\* j units, j units and a half, one byte less and one byte more
Around(m, j) ==
    LET x == MulSmall(m.mag, j)
    IN  {x, Sub(x, One), Add(x, One), Add(x, Shr(m.mag, 1)), Add(x, Shr(m.mag, 3)),
         Add(Add(x, Shr(m.mag, 3)), One)}

ByteCounts ==
    {Int64(FALSE, Norm(<<n>>)) : n \in {0, 1, 9, 10, 99, 100, 512, 999, 1000, 1023}}
    \cup {Int64(TRUE, One), MinInt64, MaxInt64}
    \cup {Int64(FALSE, x) :
            x \in UNION {Around(units[i].multiplier, j) :
                            i \in DOMAIN units, j \in {1, 2, 8, 9, 10, 99, 100, 1000, 1023, 1024}}}

Init ==
    /\ op = "none"
    /\ \/ sizeStr \in SizeStrings /\ bytes = Int64(FALSE, Zero)
       \/ sizeStr = <<>> /\ bytes \in ByteCounts
    /\ ret = Int64(FALSE, Zero)
    /\ err = nil
    /\ verr = nil
    /\ out = <<>>

\* ret, err := ParseSize(sizeStr)
ParseSizeCall ==
    /\ op = "none"
    /\ \E r \in ParseSize(sizeStr) :
        /\ ret' = r.val
        /\ err' = r.err
    /\ op' = "ParseSize"
    /\ UNCHANGED <<sizeStr, bytes, verr, out>>

\* verr := ValidateSize(sizeStr), of the string ParseSize was called with
ValidateSizeCall ==
    /\ op = "ParseSize"
    /\ verr' \in ValidateSize(sizeStr)
    /\ op' = "ValidateSize"
    /\ UNCHANGED <<sizeStr, bytes, ret, err, out>>

\* out := FormatSize(bytes)
FormatSizeCall ==
    /\ op = "none"
    /\ out' = FormatSize(bytes)
    /\ op' = "FormatSize"
    /\ UNCHANGED <<sizeStr, bytes, ret, err, verr>>

Next == ParseSizeCall \/ ValidateSizeCall \/ FormatSizeCall

Spec == Init /\ [][Next]_vars

(***************************************************************************)
(* The grammar and the unit table as the specification states them, for    *)
(* the properties below.                                                   *)
(***************************************************************************)
AllDigits(w) == w # <<>> /\ \A i \in DOMAIN w : w[i] \in DigitSet

\* one or more digits, optionally a decimal point and one or more digits
NumeralShape(w) ==
    \/ AllDigits(w)
    \/ \E p \in DOMAIN w :
        /\ w[p] = "."
        /\ AllDigits(SubSeq(w, 1, p - 1))
        /\ AllDigits(SubSeq(w, p + 1, Len(w)))

\* the <<a, b>> for which t is a numeral t[1..a], whitespace t[a+1..b] and
\* letters t[b+1..]
Splits(t) ==
    {<<a, b>> \in (0..Len(t)) \X (0..Len(t)) :
        /\ a <= b
        /\ \A k \in (b + 1)..Len(t) : IsLetter(t[k])
        /\ \A k \in (a + 1)..b : IsReSpace(t[k])
        /\ NumeralShape(SubSeq(t, 1, a))}

HasShape(t) == Splits(t) # {}

\* the input of the call without its leading and trailing whitespace
Trimmed == TrimSpace(sizeStr)

Split == CHOOSE ab \in Splits(Trimmed) : TRUE

NumberPart == SubSeq(Trimmed, 1, Split[1])

UnitPart == SubSeq(Trimmed, Split[2] + 1, Len(Trimmed))

\* the numeral's digits without the point, and how many follow the point
NumberDigits == SelectSeq(NumberPart, IsDigit)

FractionLen ==
    IF AllDigits(NumberPart) THEN 0
    ELSE Len(NumberPart) - (CHOOSE p \in DOMAIN NumberPart : NumberPart[p] = ".")

RECURSIVE Power(_, _)
Power(c, n) == IF n = 0 THEN One ELSE MulSmall(Power(c, n - 1), c)

Prefixes == <<"k", "m", "g", "t", "p">>

\* the multiplier the unit table of the specification gives the lower-case
\* unit u, Zero for a unit that is not in the table
TableMultiplier(u) ==
    IF u \in {<<"b">>, <<"b", "y", "t", "e">>, <<"b", "y", "t", "e", "s">>} THEN One
    ELSE IF u = <<>> \/ u[1] \notin Range(Prefixes) THEN Zero
    ELSE IF Len(u) = 1 \/ (Len(u) = 3 /\ u[2] = "i" /\ u[3] = "b")
    THEN Power(1024, IndexOf(Prefixes, u[1]))
    ELSE IF Len(u) = 2 /\ u[2] = "b" THEN Power(1000, IndexOf(Prefixes, u[1]))
    ELSE Zero

UnitMultiplier == TableMultiplier(ToLower(UnitPart))

\* the numeric value times the unit's multiplier, truncated toward zero
ExactBytes == DivPow10(Mul(FromDecimal(NumberDigits), UnitMultiplier), FractionLen, FALSE)[1]

\* whether that product is above the largest int64
ExactOverflows ==
    Less(Mul(MaxInt64.mag, Pow10(FractionLen)), Mul(FromDecimal(NumberDigits), UnitMultiplier))

\* a well-formed input with a unit of the table
KnownUnitInput == HasShape(Trimmed) /\ UnitPart # <<>> /\ UnitMultiplier # Zero

\* a well-formed input with a unit that is not in the table
UnknownUnitInput == HasShape(Trimmed) /\ UnitPart # <<>> /\ UnitMultiplier = Zero

Parsed == op = "ParseSize"

(***************************************************************************)
(* ParseSize                                                               *)
(***************************************************************************)
\* C1: ParseSize returns an error or a byte count that is not negative.
C1_NonNegative == Parsed /\ err = nil => ~ret.neg

\* C2: for a numeral with a unit of the table, ParseSize returns the numeric
\* value times the unit's multiplier, truncated toward zero, when that product
\* fits in an int64.
C2_ExactProduct ==
    Parsed /\ KnownUnitInput /\ LessEq(ExactBytes, MaxInt64.mag)
        => err = nil /\ ret = Int64(FALSE, ExactBytes)

\* an input whose numeric value is negative: a minus sign before a
\* well-formed input whose numeral is not zero
NegativeInput ==
    /\ Trimmed # <<>>
    /\ Head(Trimmed) = "-"
    /\ HasShape(Tail(Trimmed))
    /\ \E i \in DOMAIN Trimmed : Trimmed[i] \in DigitSet \ {"0"}

\* C3: ParseSize of an input whose numeric value is negative fails with the
\* error "size cannot be negative", and returns no byte count.
C3_NegativeSize ==
    Parsed /\ NegativeInput
        => err.msg = "size cannot be negative" /\ ret = Int64(FALSE, Zero)

\* C4: for a well-formed input with a unit of the table whose product is
\* above the largest int64, ParseSize fails with the error "size too large".
C4_Overflow ==
    Parsed /\ KnownUnitInput /\ ExactOverflows
        => err.msg = "size too large" /\ ret = Int64(FALSE, Zero)

\* C5: ParseSize of the decimal numeral of an n < 2^53, digits only and no
\* unit, returns n and no error.
C5_ExactNumeral ==
    Parsed /\ AllDigits(sizeStr) /\ Less(FromDecimal(sizeStr), Pow2(MantBits))
        => err = nil /\ ret = Int64(FALSE, FromDecimal(sizeStr))

\* the numeral of 2^53 - 1, the largest such n, has been parsed
C5_Witness ==
    /\ Parsed
    /\ AllDigits(sizeStr)
    /\ FromDecimal(sizeStr) = Sub(Pow2(MantBits), One)
    /\ ret = Int64(FALSE, Sub(Pow2(MantBits), One))

\* a float64 is finite below this: 2^1024 - 2^970
FloatRange == Sub(Pow2(MaxExp), Pow2(MaxExp - MantBits - 1))

\* the numeral's value is within the float64 range
NumberInRange == Less(FromDecimal(NumberDigits), Mul(FloatRange, Pow10(FractionLen)))

\* C9 (as stated): ParseSize of a well-formed input whose unit is not in the
\* table fails with the error "unknown unit".
C9_UnknownUnit ==
    Parsed /\ UnknownUnitInput => err.msg = "unknown unit" /\ ret = Int64(FALSE, Zero)

\* C9 (amended): ParseSize of a well-formed input whose numeral is within the
\* float64 range and whose unit is not in the table fails with the error
\* "unknown unit", names the lower-cased unit and returns no byte count.
C9_UnknownUnitInRange ==
    Parsed /\ UnknownUnitInput /\ NumberInRange
        => /\ err = [msg |-> "unknown unit", arg |-> Str(ToLower(UnitPart))]
           /\ ret = Int64(FALSE, Zero)

\* "1ZiB" has been parsed and rejected for its unit
C9_Witness ==
    /\ Parsed
    /\ sizeStr = <<"1", "Z", "i", "B">>
    /\ err.msg = "unknown unit"

C8_SameError ==
    op = "ValidateSize" => (verr = nil <=> err = nil) /\ verr = err

\* both have rejected "1xy", with the same error
C8_Witness ==
    /\ op = "ValidateSize"
    /\ sizeStr = <<"1", "x", "y">>
    /\ err # nil
    /\ verr = err

(***************************************************************************)
(* FormatSize                                                              *)
(***************************************************************************)
Formatted == op = "FormatSize"

\* the output's number and unit: what is before and after its space
OutSpace == CHOOSE i \in DOMAIN out : out[i] = " "

OutNumber == SubSeq(out, 1, OutSpace - 1)

OutUnit == SubSeq(out, OutSpace + 1, Len(out))

\* w is the decimal numeral of x, without leading zeros
IsNumeralOf(w, x) ==
    /\ AllDigits(w)
    /\ FromDecimal(w) = x
    /\ (Len(w) = 1 \/ w[1] # "0")

\* C6: FormatSize returns a string for every int64: "0 B" for a negative one,
\* and the decimal numeral of n and " B" for 0 <= n < 1024.
C6_ClampedOrBytes ==
    Formatted =>
        /\ out # <<>>
        /\ bytes.neg => out = <<"0", " ", "B">>
        /\ ~bytes.neg /\ Less(bytes.mag, <<1024>>) =>
            /\ \E i \in DOMAIN out : out[i] = " "
            /\ OutUnit = <<"B">>
            /\ IsNumeralOf(OutNumber, bytes.mag)

\* -1 and 1023 have been formatted
C6_Witness ==
    /\ Formatted
    /\ \/ bytes = Int64(TRUE, One) /\ out = <<"0", " ", "B">>
       \/ bytes = Int64(FALSE, <<1023>>) /\ out = <<"1", "0", "2", "3", " ", "B">>

BinaryNames ==
    <<<<"K", "i", "B">>, <<"M", "i", "B">>, <<"G", "i", "B">>, <<"T", "i", "B">>,
      <<"P", "i", "B">>>>

\* the largest e in 1..5 with 1024^e <= n, for n >= 1024
UnitIndex(n) == Max({e \in DOMAIN BinaryNames : LessEq(Power(1024, e), n)})

\* the decimal places the precision policy gives n bytes shown in units of m
Places(n, m) ==
    IF LessEq(MulSmall(m, 100), n) THEN 0
    ELSE IF LessEq(MulSmall(m, 10), n) THEN 1
    ELSE 2

\* w is digits with exactly d decimal places
HasPlaces(w, d) ==
    IF d = 0 THEN AllDigits(w)
    ELSE /\ Len(w) > d + 1
         /\ w[Len(w) - d] = "."
         /\ AllDigits(SubSeq(w, 1, Len(w) - d - 1))
         /\ AllDigits(SubSeq(w, Len(w) - d + 1, Len(w)))

Distance(x, y) == IF Less(x, y) THEN Sub(y, x) ELSE Sub(x, y)

\* how far, in bytes times 10^d, the number shown with d places in units of m
\* is from n
Error(w, d, m, n) == Distance(Mul(FromDecimal(SelectSeq(w, IsDigit)), m), Mul(n, Pow10(d)))

\* C7 (as stated): for n >= 1024, FormatSize renders a number, a space and
\* the largest of KiB .. PiB that is at most n; the number has zero, one or
\* two decimal places as n is at least 100 units, at least 10 units or less,
\* and it is n in that unit to less than one unit of its last place.
C7_UnitAndPrecision ==
    Formatted /\ ~bytes.neg /\ LessEq(<<1024>>, bytes.mag) =>
        LET n == bytes.mag
            m == Power(1024, UnitIndex(n))
            d == Places(n, m)
        IN  /\ Cardinality({i \in DOMAIN out : out[i] = " "}) = 1
            /\ OutUnit = BinaryNames[UnitIndex(n)]
            /\ HasPlaces(OutNumber, d)
            /\ Less(Error(OutNumber, d, m, n), m)

\* the float64 nearest to n: n itself below 2^53, and otherwise the nearest
\* multiple of the power of two that leaves 53 bits, the even one on a tie
Nearest64(n) ==
    LET s  == IF BitLen(n) > MantBits THEN BitLen(n) - MantBits ELSE 0
        lo == Shl(Shr(n, s), s)
        hi == Add(lo, Pow2(s))
    IN  IF s = 0 THEN n
        ELSE IF Less(Distance(n, lo), Distance(hi, n)) THEN lo
        ELSE IF Less(Distance(hi, n), Distance(n, lo)) THEN hi
        ELSE IF IsOdd(Shr(lo, s)) THEN hi
        ELSE lo

\* C7 (amended): for n >= 1024, FormatSize renders a number, a space and the
\* largest of KiB .. PiB that is at most n; with r the float64 nearest to n
\* (n itself up to 2^53), the number has zero, one or two decimal places as r
\* is at least 100 units, at least 10 units or less, and it is r in that unit
\* rounded to the nearest at that many places.
C7_UnitAndFloatPrecision ==
    Formatted /\ ~bytes.neg /\ LessEq(<<1024>>, bytes.mag) =>
        LET n == bytes.mag
            r == Nearest64(n)
            m == Power(1024, UnitIndex(n))
            d == Places(r, m)
        IN  /\ Cardinality({i \in DOMAIN out : out[i] = " "}) = 1
            /\ OutUnit = BinaryNames[UnitIndex(n)]
            /\ HasPlaces(OutNumber, d)
            /\ LessEq(MulSmall(Error(OutNumber, d, m, r), 2), m)

\* 1536 has been formatted as "1.50 KiB"
C7_Witness ==
    /\ Formatted
    /\ bytes = Int64(FALSE, <<1536>>)
    /\ out = <<"1", ".", "5", "0", " ", "K", "i", "B">>
====
